---- MODULE Spec2Model ----
(***************************************************************************)
(* Model of pylith's ExplicitLumped formulation (explicit time stepping    *)
(* with a lumped Jacobian stored as a field):                              *)
(*   src/pylith/problems/ExplicitLumped.py                                 *)
(* One action per public handler (initialize, prestep, step, poststep).    *)
(* A handler is a straight-line Python method: it is modelled as a chain   *)
(* of primitive operations on a machine record `st`; a Python exception    *)
(* is the flag st.raised, which every later primitive passes through       *)
(* unchanged (the method has no try/except).                               *)
(*                                                                         *)
(* Collaborators (constraints, integrators, solver, the Formulation base   *)
(* class, the field set) are not part of the file: what they do is taken   *)
(* from their contracts, and what a contract leaves open is an input of    *)
(* the action: the content of freshly allocated storage, the solution the  *)
(* solver returns, the integrators that report a stale tangent, and the    *)
(* collaborator call that raises (failAt, 0 for none).                     *)
(* A handler may be called in any order and with any time step; an         *)
(* exception ends the run (aborted).                                       *)
(*                                                                         *)
(* Spec is the formulation with its integrators in one registration order, *)
(* SpecOrder the same with every registration order and the handlers      *)
(* called in the driver's order. SpecMaxwell is the                        *)
(* constructor of the Maxwell plane-strain test-data object                *)
(*   src/unittests/libtests/materials/data/MaxwellPlaneStrainElastic.py    *)
(* with its literals drawn from small sets.                                *)
(***************************************************************************)
EXTENDS Integers, Sequences, FiniteSets, TLC

\* ------------------------------------------------------------------ bounds
NumPoints == 2
MaxSteps == 2

Points == 1..NumPoints
\* the time steps and the time a caller passes (no handler branches on t: it
\* is handed on to the collaborators)
DtVals == {1, 2}
TVals == {1}

\* ------------------------------------------------------------- field names
DispIncr == "dispIncr(t->t+dt)"
DispT == "disp(t)"
DispTmdt == "disp(t-dt)"
Residual == "residual"

VARIABLES
  fields,             \* self.fields: name -> field values (empty: no field set yet)
  jacobian,           \* self.jacobian: <<>> before it is created
  jacobianObj,        \* which MeshField object self.jacobian is bound to (0: None)
  solver,             \* self.solver as seen through its two calls
  useSolnIncr,        \* per constraint / integrator: useSolnIncr(True) received
  intDt,              \* per integrator: dt of the last timeStep(dt), 0 if none
  constraints,        \* self.constraints, in registration order
  integratorsMesh,    \* self.integratorsMesh, in registration order
  integratorsSubMesh, \* self.integratorsSubMesh, in registration order
  last,               \* history: the last handler call and the collaborator calls it made
  nsteps,             \* history: number of poststep calls so far
  committed,          \* history: the increments the returned poststeps found, oldest first
  aborted,            \* an exception left a handler: the run is over
  maxwell             \* the MaxwellPlaneStrainElastic data object under construction

vars == <<fields, jacobian, jacobianObj, solver, useSolnIncr, intDt, constraints,
          integratorsMesh, integratorsSubMesh, last, nsteps, committed, aborted,
          maxwell>>

ConstraintIds == {"bc1", "bc2"}
MeshIntegratorIds == {"m1", "m2"}
SubMeshIntegratorIds == {"s1"}
IntegratorIds == MeshIntegratorIds \cup SubMeshIntegratorIds
Collaborators == ConstraintIds \cup IntegratorIds
\* the sets of integrators that may report a stale tangent in one prestep:
\* none, one, several, all
StaleSets == {{}, {"s1"}, {"m1", "m2"}, IntegratorIds}

Zero == [p \in Points |-> 0]
Ones == [p \in Points |-> 1]
Ramp == [p \in Points |-> IF p = 1 THEN 1 ELSE 0]
NoFields == [n \in {} |-> <<>>]
\* what freshly allocated storage may hold, and what the solver may return
AllocContents == {Zero, Ramp}
Solutions == {Ones, Ramp}

\* the point a constraint prescribes, and the increment it prescribes there
\* for the interval [t0, t1] (a boundary moving at unit rate)
ConstrainedPoint(c) == IF c = "bc1" THEN 1 ELSE NumPoints
PrescribedIncr(c, t0, t1) == t1 - t0

\* relative size of an integrator's contributions
IntWeight(i) == CASE i = "m1" -> 1 [] i = "m2" -> 2 [] OTHER -> 4

\* ------------------------------------------------------- machine primitives
\* the machine a handler runs on: the object's state, the collaborator calls
\* made so far, the pending exception, and the call that is going to fail
Start(failAt) ==
  [fields |-> fields, jacobian |-> jacobian, jacobianObj |-> jacobianObj,
   solver |-> solver, solveArgs |-> <<>>,
   useSolnIncr |-> useSolnIncr, intDt |-> intDt,
   calls |-> <<>>, raised |-> FALSE, failAt |-> failAt,
   failedAt |-> 0, needNewJacobian |-> FALSE, reported |-> {}, reforms |-> 0,
   settingsDt |-> 0]

Raise(st) == [st EXCEPT !.raised = TRUE]

\* a call to a collaborator: logged; it raises when it is the failing call
\* (failedAt remembers which call of the handler that was)
Call(st, fn, obj) ==
  IF st.raised THEN st
  ELSE IF Len(st.calls) + 1 = st.failAt
       THEN [st EXCEPT !.calls = Append(@, <<fn, obj>>), !.raised = TRUE,
                       !.failedAt = st.failAt]
       ELSE [st EXCEPT !.calls = Append(@, <<fn, obj>>)]

HasField(st, name) == name \in DOMAIN st.fields

\* fields.get(name): raises when the field set has no such field
FieldsGet(st, name) ==
  IF st.raised THEN st
  ELSE IF HasField(st, name) THEN st ELSE Raise(st)

\* field.zero(): every entry of the field becomes 0
FieldZero(st, name) ==
  LET g == FieldsGet(st, name)
  IN IF g.raised THEN g
     ELSE [g EXCEPT !.fields[name] = [p \in DOMAIN @ |-> 0]]

\* ------------------------------------------------------------- initialize
\* Formulation.initialize (base class): creates the field set with the
\* solution fields disp(t) and residual and, when the caller's setup provides
\* it, the allocated increment field; the other fields have no layout yet
FormulationInitialize(st, hasIncr, garbage) ==
  LET c == Call(st, "Formulation.initialize", "self")
      names == {DispT, Residual} \cup (IF hasIncr THEN {DispIncr} ELSE {})
  IN IF c.raised THEN c
     ELSE [c EXCEPT !.fields = [n \in names |-> IF n = DispIncr THEN garbage ELSE <<>>]]

\* fields.add(name, label): a new field without layout; a second field of the
\* same name is an error
FieldsAdd(st, name) ==
  IF st.raised THEN st
  ELSE IF HasField(st, name) THEN Raise(st)
  ELSE [st EXCEPT !.fields = [n \in DOMAIN @ \cup {name} |->
                                 IF n = name THEN <<>> ELSE @[n]]]

\* fields.copyLayout(src): every other field gets src's layout and storage of
\* its own, whose content is whatever the allocation leaves there
FieldsCopyLayout(st, src, garbage) ==
  LET g == FieldsGet(st, src)
  IN IF g.raised THEN g
     ELSE [g EXCEPT !.fields = [n \in DOMAIN @ |-> IF n = src THEN @[n] ELSE garbage]]

\* jacobian = MeshField(self.mesh); ...; jacobian.allocate(); self.jacobian = jacobian
\* (no zero() and no integrator is asked for its contribution)
JacobianCreate(st, garbage) ==
  IF st.raised THEN st
  ELSE [st EXCEPT !.jacobian = garbage, !.jacobianObj = @ + 1]

\* self.solver.initialize(self.fields, self.jacobian, self)
SolverInitialize(st) ==
  LET c == Call(st, "solver.initialize", "solver")
  IN IF c.raised THEN c
     ELSE [c EXCEPT !.solver = [initialized |-> TRUE, jacobianObj |-> c.jacobianObj]]

\* for x in objs: x.useSolnIncr(True)
RECURSIVE UseSolnIncrLoop(_, _, _)
UseSolnIncrLoop(st, objs, k) ==
  IF k > Len(objs) THEN st
  ELSE LET c == Call(st, "useSolnIncr", objs[k])
       IN IF c.raised THEN c
          ELSE UseSolnIncrLoop([c EXCEPT !.useSolnIncr[objs[k]] = TRUE], objs, k + 1)

\* ---------------------------------------------------------------- prestep
\* for constraint in self.constraints: constraint.setFieldIncr(t, t+dt, dispIncr)
\* what the loop would do if it caught a constraint's exception and went on
RECURSIVE SetFieldIncrLoopSwallow(_, _, _, _)
SetFieldIncrLoopSwallow(st, t0, t1, k) ==
  IF k > Len(constraints) THEN st
  ELSE LET c == Call(st, "setFieldIncr", constraints[k])
       IN IF c.raised THEN SetFieldIncrLoopSwallow([c EXCEPT !.raised = FALSE], t0, t1, k + 1)
          ELSE SetFieldIncrLoopSwallow(
                 [c EXCEPT !.fields[DispIncr][ConstrainedPoint(constraints[k])] =
                             PrescribedIncr(constraints[k], t0, t1)],
                 t0, t1, k + 1)

RECURSIVE SetFieldIncrLoop(_, _, _, _)
SetFieldIncrLoop(st, t0, t1, k) ==
  IF k > Len(constraints) THEN st
  ELSE LET c == Call(st, "setFieldIncr", constraints[k])
       IN IF c.raised THEN c
          ELSE SetFieldIncrLoop(
                 [c EXCEPT !.fields[DispIncr][ConstrainedPoint(constraints[k])] =
                             PrescribedIncr(constraints[k], t0, t1)],
                 t0, t1, k + 1)

\* what timeStep would hand the integrator if the time step were clamped to
\* a stable bound of 1
TimeStepClamped(st, i, dt) ==
  LET c == Call(st, "timeStep", i)
  IN IF c.raised THEN c ELSE [c EXCEPT !.intDt[i] = IF dt > 1 THEN 1 ELSE dt]

\* integrator.timeStep(dt)
TimeStep(st, i, dt) ==
  LET c == Call(st, "timeStep", i)
  IN IF c.raised THEN c ELSE [c EXCEPT !.intDt[i] = dt]

\* what the query would do if each integrator's answer replaced the decision
\* (needNewJacobian = integrator.needNewJacobian()): the last one asked decides
QueryNeedNewJacobianLastWins(st, i, stale) ==
  LET c == Call(st, "needNewJacobian", i)
  IN IF c.raised THEN c
     ELSE [c EXCEPT !.needNewJacobian = (i \in stale),
                    !.reported = IF i \in stale THEN @ \cup {i} ELSE @]

\* if integrator.needNewJacobian(): needNewJacobian = True
QueryNeedNewJacobian(st, i, stale) ==
  LET c == Call(st, "needNewJacobian", i)
  IN IF c.raised THEN c
     ELSE IF i \in stale
          THEN [c EXCEPT !.needNewJacobian = TRUE, !.reported = @ \cup {i}]
          ELSE c

\* what integrator i adds to the lumped Jacobian: it depends on the time step
\* the integrator was given
JacobianContribution(st, i) == [p \in Points |-> IntWeight(i) * st.intDt[i]]

\* what integrator i adds to the residual: it depends on u(t) and u(t-dt)
ResidualContribution(st, i) ==
  [p \in Points |-> IntWeight(i) * (st.fields[DispT][p] - st.fields[DispTmdt][p])]

\* Formulation.reformJacobianLumped: the Jacobian is zeroed and every
\* integrator adds its contribution, in registration order
RECURSIVE IntegrateJacobianLoop(_, _, _)
IntegrateJacobianLoop(st, ints, k) ==
  IF k > Len(ints) THEN st
  ELSE LET c == Call(st, "integrateJacobian", ints[k])
       IN IF c.raised THEN c
          ELSE IntegrateJacobianLoop(
                 [c EXCEPT !.jacobian = [p \in Points |-> @[p] + JacobianContribution(c, ints[k])[p]]],
                 ints, k + 1)

ReformJacobianLumped(st) ==
  IF st.raised THEN st
  ELSE IntegrateJacobianLoop([st EXCEPT !.jacobian = Zero],
                             integratorsMesh \o integratorsSubMesh, 1)

\* self.updateSettings(self.jacobian, self.fields, t, dt): the time step the
\* Jacobian is going to be assembled for (0: none yet in this handler)
UpdateSettings(st, t, dt) ==
  IF st.raised THEN st ELSE [st EXCEPT !.settingsDt = dt]

\* ExplicitLumped._reformJacobian(t, dt)
ReformJacobian(st, t, dt) ==
  IF st.raised THEN st
  ELSE ReformJacobianLumped(UpdateSettings([st EXCEPT !.reforms = @ + 1], t, dt))

\* what the loop would do if it reformed the Jacobian as soon as an integrator
\* reports a stale tangent, once per report
RECURSIVE IntegratorLoopReformEach(_, _, _, _, _)
IntegratorLoopReformEach(st, ints, dt, stale, k) ==
  IF k > Len(ints) \/ st.raised THEN st
  ELSE LET q == QueryNeedNewJacobian(TimeStep(st, ints[k], dt), ints[k], stale)
       IN IntegratorLoopReformEach(
            IF ~q.raised /\ ints[k] \in stale
              THEN [ReformJacobian(q, 0, dt) EXCEPT !.needNewJacobian = FALSE]
              ELSE q,
            ints, dt, stale, k + 1)

\* what the loop would do if it stopped at the first integrator that reports
\* a stale tangent
RECURSIVE IntegratorLoopShortCircuit(_, _, _, _, _)
IntegratorLoopShortCircuit(st, ints, dt, stale, k) ==
  IF k > Len(ints) \/ st.raised \/ st.needNewJacobian THEN st
  ELSE IntegratorLoopShortCircuit(
         QueryNeedNewJacobian(TimeStep(st, ints[k], dt), ints[k], stale),
         ints, dt, stale, k + 1)

\* for integrator in self.integratorsMesh + self.integratorsSubMesh: ...
RECURSIVE IntegratorLoop(_, _, _, _, _)
IntegratorLoop(st, ints, dt, stale, k) ==
  IF k > Len(ints) \/ st.raised THEN st
  ELSE IntegratorLoop(QueryNeedNewJacobian(TimeStep(st, ints[k], dt), ints[k], stale),
                      ints, dt, stale, k + 1)

\* what prestep would do if it did not look the increment field up first
PrestepRunNoGet(st, t, dt, stale) ==
  LET s2 == SetFieldIncrLoop(st, t, t + dt, 1)
      s3 == IntegratorLoop(s2, integratorsMesh \o integratorsSubMesh, dt, stale, 1)
  IN IF s3.raised THEN s3
     ELSE IF s3.needNewJacobian THEN ReformJacobian(s3, t, dt) ELSE s3

\* what prestep would do if it reformed the Jacobian in every step
PrestepRunAlwaysReform(st, t, dt, stale) ==
  LET s1 == FieldsGet(st, DispIncr)
      s2 == SetFieldIncrLoop(s1, t, t + dt, 1)
      s3 == IntegratorLoop(s2, integratorsMesh \o integratorsSubMesh, dt, stale, 1)
  IN ReformJacobian(s3, t, dt)

\* what prestep would do if it added the prescribed increment to disp(t)
\* itself
PrestepRunCommitting(st, t, dt, stale) ==
  LET s1 == FieldsGet(st, DispIncr)
      s2 == SetFieldIncrLoop(s1, t, t + dt, 1)
      s3 == IntegratorLoop(s2, integratorsMesh \o integratorsSubMesh, dt, stale, 1)
      s4 == IF s3.raised THEN s3
            ELSE IF s3.needNewJacobian THEN ReformJacobian(s3, t, dt) ELSE s3
  IN IF s4.raised THEN s4
     ELSE [s4 EXCEPT !.fields[DispT] = [p \in Points |-> @[p] + s4.fields[DispIncr][p]]]

\* ExplicitLumped.prestep(t, dt)
PrestepRun(st, t, dt, stale) ==
  LET s1 == FieldsGet(st, DispIncr)
      s2 == SetFieldIncrLoop(s1, t, t + dt, 1)
      s3 == IntegratorLoop(s2, integratorsMesh \o integratorsSubMesh, dt, stale, 1)
  IN IF s3.raised THEN s3
     ELSE IF s3.needNewJacobian THEN ReformJacobian(s3, t, dt) ELSE s3

\* ------------------------------------------------------------------- step
\* Formulation._reformResidual(t, dt): the residual is zeroed and every
\* integrator adds its contribution, in registration order
RECURSIVE IntegrateResidualLoop(_, _, _)
IntegrateResidualLoop(st, ints, k) ==
  IF k > Len(ints) THEN st
  ELSE LET c == Call(st, "integrateResidual", ints[k])
       IN IF c.raised THEN c
          ELSE IntegrateResidualLoop(
                 [c EXCEPT !.fields[Residual] = [p \in Points |-> @[p] + ResidualContribution(c, ints[k])[p]]],
                 ints, k + 1)

ReformResidual(st, t, dt) ==
  LET g == FieldsGet(FieldsGet(FieldZero(st, Residual), DispT), DispTmdt)
  IN IF g.raised THEN g
     ELSE IntegrateResidualLoop(g, integratorsMesh \o integratorsSubMesh, 1)

\* self.solver.solve(target, jac, residual): the solver writes the solution
\* sol into the field it is handed as its first argument
SolverSolve(st, target, jac, residual, sol) ==
  LET c == Call([st EXCEPT !.solveArgs = <<target, jac, residual>>],
                "solver.solve", "solver")
  IN IF st.raised THEN st
     ELSE IF c.raised THEN c ELSE [c EXCEPT !.fields[target] = sol]

\* what step would do if it handed the solver disp(t) instead of the increment
StepRunSolveIntoDisp(st, t, dt, sol) ==
  LET s1 == ReformResidual(st, t, dt)
      s2 == FieldsGet(s1, Residual)
      s3 == FieldsGet(s2, DispIncr)
  IN SolverSolve(s3, DispT, s3.jacobianObj, Residual, sol)

\* what step would do if it ran the solver on the residual it found and
\* reformed the residual afterwards
StepRunSolveFirst(st, t, dt, sol) ==
  LET s1 == FieldsGet(st, Residual)
      s2 == FieldsGet(s1, DispIncr)
      s3 == SolverSolve(s2, DispIncr, s2.jacobianObj, Residual, sol)
  IN ReformResidual(s3, t, dt)

\* ExplicitLumped.step(t, dt)
StepRun(st, t, dt, sol) ==
  LET s1 == ReformResidual(st, t, dt)
      s2 == FieldsGet(s1, Residual)
      s3 == FieldsGet(s2, DispIncr)
  IN SolverSolve(s3, DispIncr, s3.jacobianObj, Residual, sol)

\* --------------------------------------------------------------- poststep
\* dispTmdt.copy(dispT)
FieldCopy(st, dst, src) ==
  IF st.raised THEN st ELSE [st EXCEPT !.fields[dst] = st.fields[src]]

\* dispT += dispIncr
FieldAddAssign(st, dst, src) ==
  IF st.raised THEN st
  ELSE [st EXCEPT !.fields[dst] = [p \in Points |-> @[p] + st.fields[src][p]]]

\* Formulation.poststep(t, dt) (base class): touches no field
FormulationPoststep(st, t, dt) == Call(st, "Formulation.poststep", "self")

\* what poststep would do if it added the increment before saving disp(t)
PoststepRunAddFirst(st, t, dt) ==
  LET s1 == FieldsGet(FieldsGet(FieldsGet(st, DispIncr), DispT), DispTmdt)
      s2 == FieldAddAssign(s1, DispT, DispIncr)
      s3 == FieldCopy(s2, DispTmdt, DispT)
      s4 == FieldZero(s3, DispIncr)
  IN FormulationPoststep(s4, t, dt)

\* what poststep would do if it zeroed the increment before adding it
PoststepRunZeroFirst(st, t, dt) ==
  LET s1 == FieldsGet(FieldsGet(FieldsGet(st, DispIncr), DispT), DispTmdt)
      s2 == FieldCopy(s1, DispTmdt, DispT)
      s3 == FieldZero(s2, DispIncr)
      s4 == FieldAddAssign(s3, DispT, DispIncr)
  IN FormulationPoststep(s4, t, dt)

\* ExplicitLumped.poststep(t, dt)
PoststepRun(st, t, dt) ==
  LET s1 == FieldsGet(FieldsGet(FieldsGet(st, DispIncr), DispT), DispTmdt)
      s2 == FieldCopy(s1, DispTmdt, DispT)
      s3 == FieldAddAssign(s2, DispT, DispIncr)
      s4 == FieldZero(s3, DispIncr)
  IN FormulationPoststep(s4, t, dt)

\* ------------------------------------------------- initialize, as a whole
\* what initialize would do if it also assembled the Jacobian it creates
InitializeRunBuilding(st, hasIncr, garbage) ==
  LET s1 == FormulationInitialize(st, hasIncr, garbage)
      s2 == FieldsAdd(s1, DispTmdt)
      s3 == FieldsCopyLayout(s2, DispIncr, garbage)
      s4 == FieldZero(s3, DispTmdt)
      s5 == FieldZero(s4, DispT)
      s6 == FieldZero(s5, Residual)
      s7 == ReformJacobian(JacobianCreate(s6, garbage), 0, 0)
      s8 == SolverInitialize(s7)
      s9 == UseSolnIncrLoop(s8, constraints, 1)
  IN UseSolnIncrLoop(s9, integratorsMesh \o integratorsSubMesh, 1)

\* what initialize would do if it set up the solver and the collaborators
\* before the fields
InitializeRunFieldsLast(st, hasIncr, garbage) ==
  LET s1 == FormulationInitialize(st, hasIncr, garbage)
      s2 == JacobianCreate(s1, garbage)
      s3 == SolverInitialize(s2)
      s4 == UseSolnIncrLoop(s3, constraints, 1)
      s5 == UseSolnIncrLoop(s4, integratorsMesh \o integratorsSubMesh, 1)
      s6 == FieldsAdd(s5, DispTmdt)
      s7 == FieldsCopyLayout(s6, DispIncr, garbage)
      s8 == FieldZero(s7, DispTmdt)
      s9 == FieldZero(s8, DispT)
  IN FieldZero(s9, Residual)

\* what initialize would do if it did not zero the fields it sets up
InitializeRunNoZero(st, hasIncr, garbage) ==
  LET s1 == FormulationInitialize(st, hasIncr, garbage)
      s2 == FieldsAdd(s1, DispTmdt)
      s3 == FieldsCopyLayout(s2, DispIncr, garbage)
      s7 == JacobianCreate(s3, garbage)
      s8 == SolverInitialize(s7)
      s9 == UseSolnIncrLoop(s8, constraints, 1)
  IN UseSolnIncrLoop(s9, integratorsMesh \o integratorsSubMesh, 1)

\* ExplicitLumped.initialize(dimension, normalizer)
InitializeRun(st, hasIncr, garbage) ==
  LET s1 == FormulationInitialize(st, hasIncr, garbage)
      s2 == FieldsAdd(s1, DispTmdt)
      s3 == FieldsCopyLayout(s2, DispIncr, garbage)
      s4 == FieldZero(s3, DispTmdt)
      s5 == FieldZero(s4, DispT)
      s6 == FieldZero(s5, Residual)
      s7 == JacobianCreate(s6, garbage)
      s8 == SolverInitialize(s7)
      s9 == UseSolnIncrLoop(s8, constraints, 1)
  IN UseSolnIncrLoop(s9, integratorsMesh \o integratorsSubMesh, 1)

\* ------------------------------------------- MaxwellPlaneStrainElastic
\* src/unittests/libtests/materials/data/MaxwellPlaneStrainElastic.py: the
\* constructor computes, for numLocs locations, the material properties, the
\* elastic constants, the stress and the updated state variables, and the
\* stable time step.
\* Numbers are fixed-point: whole multiples of one unit. Sums, differences
\* and products of such numbers are exact; a quotient is rounded to the
\* nearest unit, as a floating-point quotient is rounded to the nearest
\* representable number. 3**0.5 is kept exact: a number a + b*sqrt(3) is the
\* pair <<a, b>>.
tensorSize == 3
numElasticConsts == 6
numLocs == 2
Locs == 1..numLocs

\* no data object is being constructed
NoData == [pc |-> "none"]

\* a / b for b > 0, rounded to the nearest unit
Quot(a, b) == (2 * a + b) \div (2 * b)
Min(a, b) == IF a < b THEN a ELSE b

Scalar(n) == <<n, 0>>
Sqrt3 == <<0, 1>>
SurdMul(x, y) == <<x[1] * y[1] + 3 * x[2] * y[2], x[1] * y[2] + x[2] * y[1]>>
SurdSub(x, y) == <<x[1] - y[1], x[2] - y[2]>>
\* the value of a number without irrational part
SurdValue(x) == x[1]

\* the literals of the constructor, drawn from small sets: per location
\* density, vs, the factor vp/vs (3**0.5 in the file), viscosity, strain,
\* initial stress and initial strain
DensityVals == {1, 2}
VsVals == {1, 2}
VpFactors == {Sqrt3, Scalar(2)}
ViscosityVals == {40, 100}
StrainVals == {<<1, 2, 4>>, <<4, 1, 2>>, <<-2, 1, 3>>}
InitialStressVals == {<<0, 0, 0>>, <<2, 1, 3>>}
InitialStrainVals == {<<0, 0, 0>>, <<1, 0, 2>>}
DbValues ==
  [density : DensityVals, vs : VsVals, vpFactor : VpFactors,
   viscosity : ViscosityVals, strain : StrainVals,
   initialStress : InitialStressVals, initialStrain : InitialStrainVals]

\* vpA = vsA*3**0.5
Vp(vs, factor) == SurdMul(Scalar(vs), factor)
\* muA = vsA*vsA*densityA
Mu(vs, density) == vs * vs * density
\* lambdaA = vpA*vpA*densityA - 2.0*muA
Lambda(vp, density, mu) ==
  SurdSub(SurdMul(SurdMul(vp, vp), Scalar(density)), Scalar(2 * mu))
\* maxwellTimeA = viscosityA / muA
MaxwellTime(viscosity, mu) == Quot(viscosity, mu)

\* what the elastic constants would be with the engineering shear modulus
ElasticConstsShearMu(muV, lambdaV) ==
  <<lambdaV + 2 * muV, lambdaV, 0, lambdaV + 2 * muV, 0, muV>>

\* C1111, C1122, C1112, C2222, C2212, C1212
ElasticConsts(muV, lambdaV) ==
  LET C1111 == lambdaV + 2 * muV
      C1122 == lambdaV
      C1112 == 0
      C2222 == lambdaV + 2 * muV
      C2212 == 0
      C1212 == 2 * muV
  IN <<C1111, C1122, C1112, C2222, C2212, C1212>>

\* elastic = numpy.array([[C1111, C1122, C1112], [C1122, C2222, C2212],
\*                        [C1112, C2212, C1212]])
ElasticMatrix(c) ==
  <<<<c[1], c[2], c[3]>>,
    <<c[2], c[4], c[5]>>,
    <<c[3], c[5], c[6]>>>>

\* numpy.dot(matrix, vector)
RECURSIVE RowDot(_, _, _)
RowDot(row, v, n) == IF n = 0 THEN 0 ELSE row[n] * v[n] + RowDot(row, v, n - 1)
Dot(m, v) == [i \in 1..Len(m) |-> RowDot(m[i], v, Len(v))]

\* what the viscous strain would be with the mean taken over two components
ViscousStrainHalfMean(strain) ==
  LET meanStrain == Quot(strain[1] + strain[2], 2)
  IN <<strain[1] - meanStrain, strain[2] - meanStrain, -meanStrain, strain[3]>>

\* meanStrain = (strain[0,0] + strain[1,0])/3.0; viscousStrain = ...
ViscousStrain(strain) ==
  LET meanStrain == Quot(strain[1] + strain[2], 3)
  IN <<strain[1] - meanStrain, strain[2] - meanStrain, -meanStrain, strain[3]>>

\* what _calcStress would return if it did not subtract the initial strain
CalcStressNoInitialStrain(strainV, muV, lambdaV, initialStressV, initialStrainV) ==
  LET elasticConsts == ElasticConsts(muV, lambdaV)
      product == Dot(ElasticMatrix(elasticConsts), strainV)
  IN [elasticConsts |-> elasticConsts,
      stress |-> [i \in 1..tensorSize |-> product[i] + initialStressV[i]],
      stateVarsUpdated |-> strainV \o ViscousStrain(strainV)]

\* MaxwellPlaneStrainElastic._calcStress
CalcStress(strainV, muV, lambdaV, initialStressV, initialStrainV) ==
  LET elasticConsts == ElasticConsts(muV, lambdaV)
      elastic == ElasticMatrix(elasticConsts)
      product == Dot(elastic, [i \in 1..tensorSize |-> strainV[i] - initialStrainV[i]])
  IN [elasticConsts |-> elasticConsts,
      stress |-> [i \in 1..tensorSize |-> product[i] + initialStressV[i]],
      stateVarsUpdated |-> strainV \o ViscousStrain(strainV)]

\* what the stable time step would be if the larger relaxation time were taken
DtStableImplicitOfMax(maxwellTimeA, maxwellTimeB) ==
  Quot(2 * (IF maxwellTimeA > maxwellTimeB THEN maxwellTimeA ELSE maxwellTimeB), 10)

\* self.dtStableImplicit = 0.2*min(maxwellTimeA, maxwellTimeB)
DtStableImplicit(maxwellTimeA, maxwellTimeB) ==
  Quot(2 * Min(maxwellTimeA, maxwellTimeB), 10)

Zeros(n) == [i \in 1..n |-> 0]
formulationVars ==
  <<fields, jacobian, jacobianObj, solver, useSolnIncr, intDt, constraints,
    integratorsMesh, integratorsSubMesh, last, nsteps, committed, aborted>>

\* properties = [[densityA, muA, lambdaA, maxwellTimeA], [densityB, ...]]
MaxwellProperties ==
  /\ maxwell.pc = "data"
  /\ maxwell' =
       [maxwell EXCEPT
          !.pc = "properties",
          !.properties =
            [l \in Locs |->
               LET db == maxwell.db[l]
                   mu == Mu(db.vs, db.density)
               IN [density |-> db.density, mu |-> mu,
                   lambda |-> Lambda(Vp(db.vs, db.vpFactor), db.density, mu),
                   maxwellTime |-> MaxwellTime(db.viscosity, mu)]]]
  /\ UNCHANGED formulationVars

\* (self.elasticConsts[l,:], self.stress[l,:], self.stateVarsUpdated[l,:]) =
\*     self._calcStress(strain, mu, lambda, initialStress, initialStrain)
\* for location A, then for location B
MaxwellCalcStress ==
  /\ maxwell.pc = "properties"
  /\ maxwell.evaluated < numLocs
  /\ LET l == maxwell.evaluated + 1
         db == maxwell.db[l]
         r == CalcStress(db.strain, maxwell.properties[l].mu,
                         SurdValue(maxwell.properties[l].lambda),
                         db.initialStress, db.initialStrain)
     IN maxwell' = [maxwell EXCEPT !.evaluated = l,
                                   !.elasticConsts[l] = r.elasticConsts,
                                   !.stress[l] = r.stress,
                                   !.stateVarsUpdated[l] = r.stateVarsUpdated]
  /\ UNCHANGED formulationVars

MaxwellDtStable ==
  /\ maxwell.pc = "properties"
  /\ maxwell.evaluated = numLocs
  /\ maxwell' =
       [maxwell EXCEPT
          !.pc = "done",
          !.dtStableImplicit = DtStableImplicit(maxwell.properties[1].maxwellTime,
                                                maxwell.properties[2].maxwellTime)]
  /\ UNCHANGED formulationVars

\* ---------------------------------------------------------------- actions
\* the handler's result becomes the object's state; an exception ends the run
Commit(r, op, t, dt) ==
  /\ fields' = r.fields
  /\ jacobian' = r.jacobian
  /\ jacobianObj' = r.jacobianObj
  /\ solver' = r.solver
  /\ useSolnIncr' = r.useSolnIncr
  /\ intDt' = r.intDt
  /\ last' = [op |-> op, t |-> t, dt |-> dt, raised |-> r.raised,
              calls |-> r.calls, failedAt |-> r.failedAt,
              reported |-> r.reported, reforms |-> r.reforms,
              settingsDt |-> r.settingsDt, solveArgs |-> r.solveArgs]
  /\ committed' = IF op = "poststep" /\ ~r.raised
                    THEN Append(committed, fields[DispIncr]) ELSE committed
  /\ aborted' = r.raised
  /\ UNCHANGED <<constraints, integratorsMesh, integratorsSubMesh, maxwell>>

MaxInitCalls == 2 + Cardinality(Collaborators)

Initialize ==
  /\ ~aborted
  /\ last.op = "none"
  /\ \E hasIncr \in BOOLEAN, garbage \in AllocContents, failAt \in 0..MaxInitCalls :
       Commit(InitializeRun(Start(failAt), hasIncr, garbage), "initialize", 0, 0)
  /\ UNCHANGED nsteps

MaxPrestepCalls == Cardinality(ConstraintIds) + 3 * Cardinality(IntegratorIds)

Prestep ==
  /\ ~aborted
  /\ \E t \in TVals, dt \in DtVals, stale \in StaleSets,
        failAt \in 0..MaxPrestepCalls :
       Commit(PrestepRun(Start(failAt), t, dt, stale), "prestep", t, dt)
  /\ UNCHANGED nsteps

MaxStepCalls == Cardinality(IntegratorIds) + 1

Step ==
  /\ ~aborted
  /\ \E t \in TVals, dt \in DtVals, sol \in Solutions, failAt \in 0..MaxStepCalls :
       Commit(StepRun(Start(failAt), t, dt, sol), "step", t, dt)
  /\ UNCHANGED nsteps

Poststep ==
  /\ ~aborted
  /\ nsteps < MaxSteps
  /\ \E t \in TVals, dt \in DtVals, failAt \in 0..1 :
       Commit(PoststepRun(Start(failAt), t, dt), "poststep", t, dt)
  /\ nsteps' = nsteps + 1

\* the formulation object after construction, before its collaborators are
\* registered
InitFormulation ==
  /\ fields = NoFields
  /\ jacobian = <<>>
  /\ jacobianObj = 0
  /\ solver = [initialized |-> FALSE, jacobianObj |-> 0]
  /\ useSolnIncr = [c \in Collaborators |-> FALSE]
  /\ intDt = [i \in IntegratorIds |-> 0]
  /\ last = [op |-> "none", t |-> 0, dt |-> 0, raised |-> FALSE, calls |-> <<>>,
             failedAt |-> 0, reported |-> {}, reforms |-> 0, settingsDt |-> 0,
             solveArgs |-> <<>>]
  /\ nsteps = 0
  /\ committed = <<>>
  /\ aborted = FALSE

Init ==
  /\ InitFormulation
  /\ constraints = <<"bc1", "bc2">>
  /\ integratorsMesh = <<"m1", "m2">>
  /\ integratorsSubMesh = <<"s1">>
  /\ maxwell = NoData

Next ==
  \/ Initialize
  \/ Prestep
  \/ Step
  \/ Poststep

Spec == Init /\ [][Next]_vars

\* the same object with its integrators registered in any order: the three
\* integrators in any arrangement over the mesh list and the submesh list
InitOrder ==
  /\ InitFormulation
  /\ constraints = <<"bc1", "bc2">>
  /\ \E a, b, c \in IntegratorIds :
       /\ {a, b, c} = IntegratorIds
       /\ integratorsMesh = <<a, b>>
       /\ integratorsSubMesh = <<c>>
  /\ maxwell = NoData

\* the handlers as the time-stepping driver calls them: initialize once,
\* then prestep, step, poststep in turn
PrestepInOrder == last.op \in {"initialize", "poststep"} /\ Prestep
StepInOrder == last.op = "prestep" /\ Step
PoststepInOrder == last.op = "step" /\ Poststep

NextOrder ==
  \/ Initialize
  \/ PrestepInOrder
  \/ StepInOrder
  \/ PoststepInOrder

SpecOrder == InitOrder /\ [][NextOrder]_vars

\* the data object at the start of its constructor: the literals are set, the
\* arrays are zero (numpy.zeros), nothing has been computed
InitMaxwell ==
  /\ InitFormulation
  /\ constraints = <<"bc1", "bc2">>
  /\ integratorsMesh = <<"m1", "m2">>
  /\ integratorsSubMesh = <<"s1">>
  /\ \E db \in [Locs -> DbValues] :
       maxwell = [pc |-> "data", db |-> db, evaluated |-> 0,
                  properties |-> <<>>,
                  elasticConsts |-> [l \in Locs |-> Zeros(numElasticConsts)],
                  stress |-> [l \in Locs |-> Zeros(tensorSize)],
                  stateVarsUpdated |-> [l \in Locs |-> Zeros(tensorSize + 4)],
                  dtStableImplicit |-> 0]

NextMaxwell ==
  \/ MaxwellProperties
  \/ MaxwellCalcStress
  \/ MaxwellDtStable

SpecMaxwell == InitMaxwell /\ [][NextMaxwell]_vars

\* ------------------------------------------------------------------ claims
Phases == {"prestep", "step", "poststep"}
Integrators == integratorsMesh \o integratorsSubMesh
Plus(f, g) == [p \in Points |-> f[p] + g[p]]
\* the handler call that a transition makes is the one it records in last'
Returned(op) == last'.op = op /\ ~last'.raised
\* the lumped Jacobian accumulated from every integrator for time step dt
AccumulatedJacobian(dt) ==
  [p \in Points |-> IntWeight("m1") * dt + IntWeight("m2") * dt + IntWeight("s1") * dt]
Logged(fn) == {k \in DOMAIN last.calls : last.calls[k][1] = fn}

\* C1: a poststep that returns leaves disp(t) equal to the old disp(t) plus
\* the old increment, pointwise, and disp(t-dt) equal to the old disp(t).
C1_GenerationRotation ==
  [][Returned("poststep") =>
       /\ fields'[DispT] = Plus(fields[DispT], fields[DispIncr])
       /\ fields'[DispTmdt] = fields[DispT]]_vars

\* a second poststep has run: it saved a non-zero disp(t) and added a non-zero
\* increment to it
C1_Witness ==
  /\ last.op = "poststep" /\ ~last.raised
  /\ fields[DispTmdt] # Zero
  /\ fields[DispT] # fields[DispTmdt]

\* C2: a prestep in which no integrator reports needNewJacobian() does not
\* reform the Jacobian and leaves the Jacobian buffer as it was.
C2_NoReportNoReform ==
  [][(last'.op = "prestep" /\ last'.reported = {}) =>
       /\ last'.reforms = 0
       /\ jacobian' = jacobian]_vars

\* a prestep asked every integrator, none reported, after an earlier prestep
\* had built the Jacobian
C2_Witness ==
  /\ last.op = "prestep" /\ ~last.raised /\ last.reported = {}
  /\ Cardinality(Logged("needNewJacobian")) = Len(Integrators)
  /\ \E dt \in DtVals : jacobian = AccumulatedJacobian(dt)

\* C3: a prestep in which at least one integrator reports needNewJacobian()
\* reforms the Jacobian exactly once, however many integrators report; when it
\* returns, the Jacobian is the sum of all integrators' contributions.
C3_ReformExactlyOnce ==
  last.op = "prestep" =>
    /\ last.reforms <= 1
    /\ (~last.raised /\ last.reported # {}) =>
         /\ last.reforms = 1
         /\ jacobian = AccumulatedJacobian(last.dt)
         /\ \A i \in IntegratorIds :
              Cardinality({k \in Logged("integrateJacobian") : last.calls[k][2] = i}) = 1

\* several integrators, but not all, reported in a prestep that returned
C3_Witness ==
  /\ last.op = "prestep" /\ ~last.raised
  /\ last.reported = {"m1", "m2"}
  /\ last.reforms = 1

\* C7: step leaves disp(t) and disp(t-dt) (and the set of fields) as they
\* were; the increment field changes only when the solver call completed.
C7_StepFrame ==
  [][last'.op = "step" =>
       /\ DOMAIN fields' = DOMAIN fields
       /\ \A n \in DOMAIN fields \cap {DispT, DispTmdt} : fields'[n] = fields[n]
       /\ (DispIncr \in DOMAIN fields /\ fields'[DispIncr] # fields[DispIncr]) =>
            /\ ~last'.raised
            /\ last'.calls[Len(last'.calls)] = <<"solver.solve", "solver">>]_vars

\* a step returned with the solver's increment in the increment field while
\* disp(t) holds an earlier step's displacement
C7_Witness ==
  /\ last.op = "step" /\ ~last.raised
  /\ fields[DispT] # Zero
  /\ fields[DispIncr] \in Solutions

\* C8: a poststep that returns leaves the increment field all-zero, having
\* first added the increment to disp(t); a prestep that follows a poststep
\* starts from a zero increment.
C8_IncrementZeroed ==
  [][/\ Returned("poststep") =>
          /\ fields'[DispIncr] = Zero
          /\ \A p \in Points : fields'[DispT][p] - fields[DispT][p] = fields[DispIncr][p]
     /\ (last.op = "poststep" /\ ~last.raised /\ last'.op = "prestep") =>
          fields[DispIncr] = Zero]_vars

\* a poststep returned: the increment is zero and disp(t) has moved by it
C8_Witness ==
  /\ last.op = "poststep" /\ ~last.raised
  /\ fields[DispIncr] = Zero
  /\ fields[DispT] # fields[DispTmdt]

\* C4 as stated: a phase called out of order (before initialize; step without
\* the prestep of the same (t, dt) just before it; poststep without a step
\* just before it) raises and changes neither a field nor the Jacobian.
BeforeInitialize == last.op = "none" /\ last'.op \in Phases
StepWithoutPrestep ==
  last'.op = "step" /\ ~(last.op = "prestep" /\ last.t = last'.t /\ last.dt = last'.dt)
PoststepWithoutStep == last'.op = "poststep" /\ last.op # "step"
C4_OutOfOrderAborts ==
  [][(BeforeInitialize \/ StepWithoutPrestep \/ PoststepWithoutStep) =>
       /\ last'.raised
       /\ fields' = fields
       /\ jacobian' = jacobian]_vars

\* C4 as amended: a phase called before initialize raises at once, before any
\* collaborator is called and without changing anything; after initialize the
\* order of the phases is not checked: a step without a prestep and a poststep
\* without a step raise only when a collaborator call raises, and otherwise
\* write the fields like any other step or poststep.
C4_OnlyInitializeIsRequired ==
  [][/\ BeforeInitialize =>
          /\ last'.raised /\ last'.calls = <<>>
          /\ fields' = fields /\ jacobian' = jacobian
          /\ solver' = solver /\ intDt' = intDt /\ useSolnIncr' = useSolnIncr
     /\ ((StepWithoutPrestep \/ PoststepWithoutStep) /\ ~BeforeInitialize) =>
          /\ last'.raised => last'.failedAt > 0
          /\ Returned("step") => fields'[DispIncr] \in Solutions
          /\ Returned("poststep") => fields'[DispT] = Plus(fields[DispT], fields[DispIncr])]_vars

\* a step has returned, with the solver's increment, although no prestep ever ran
C4_Witness ==
  /\ last.op = "step" /\ ~last.raised
  /\ \A i \in IntegratorIds : intDt[i] = 0
  /\ fields[DispIncr] \in Solutions

\* C5 as stated: when initialize returns, the Jacobian has been built from
\* the integrators: every integrator was asked for its contribution.
C5_InitializeBuildsJacobian ==
  (last.op = "initialize" /\ ~last.raised) =>
    /\ last.reforms = 1
    /\ \A i \in IntegratorIds : \E k \in Logged("integrateJacobian") : last.calls[k][2] = i

\* C5 as amended: initialize creates and allocates the Jacobian but does not
\* build it: no integrator is asked for a contribution, and the Jacobian holds
\* what the allocation left; it holds the integrators' accumulated
\* contributions only once a prestep has reformed it.
C5_InitializeOnlyAllocates ==
  /\ last.op = "initialize" =>
       /\ last.reforms = 0
       /\ Logged("integrateJacobian") = {}
       /\ ~last.raised => jacobian \in AllocContents
  /\ (~aborted /\ jacobian # <<>> /\ jacobian \notin AllocContents) =>
       /\ \E dt \in DtVals : jacobian = AccumulatedJacobian(dt)
       /\ \A i \in IntegratorIds : intDt[i] # 0

\* initialize returned, a prestep in which no integrator reported followed,
\* and a step has solved with the Jacobian as the allocation left it
C5_Witness ==
  /\ last.op = "step" /\ ~last.raised
  /\ \A i \in IntegratorIds : intDt[i] # 0
  /\ jacobian \in AllocContents
  /\ fields[DispIncr] \in Solutions

NoIncrementField == DOMAIN fields # {} /\ DispIncr \notin DOMAIN fields
C9_MissingIncrementIsFatal ==
  NoIncrementField =>
    /\ last.op = "initialize" /\ last.raised /\ aborted
    /\ ~solver.initialized
    /\ \A c \in Collaborators : ~useSolnIncr[c]
    /\ Logged("solver.initialize") = {}
    /\ Logged("useSolnIncr") = {}

\* initialize got as far as adding disp(t-dt) and raised at the layout copy
C9_Witness ==
  /\ NoIncrementField
  /\ DispTmdt \in DOMAIN fields
  /\ last.raised

\* C10: when a collaborator call raises in prestep or step, the handler
\* raises: the failing call is the last collaborator call of the handler, no
\* call is made twice, the Jacobian is not reformed and the solver not run
\* after it, and what the handler wrote before the failure stays written.
RECURSIVE WeightOfFirst(_, _)
WeightOfFirst(ints, n) == IF n = 0 THEN 0 ELSE IntWeight(ints[n]) + WeightOfFirst(ints, n - 1)
C10_FailurePropagates ==
  [][(last'.op \in {"prestep", "step"} /\ last'.failedAt > 0) =>
       LET calls == last'.calls
           n == last'.failedAt
           failing == calls[n][1]
       IN /\ last'.raised /\ aborted'
          /\ Len(calls) = n
          /\ \A j, k \in DOMAIN calls : j # k => calls[j] # calls[k]
          /\ failing # "integrateJacobian" => (last'.reforms = 0 /\ jacobian' = jacobian)
          /\ failing # "solver.solve" => \A k \in DOMAIN calls : calls[k][1] # "solver.solve"
          /\ last'.op = "prestep" =>
               /\ \A k \in 1..Len(constraints) : k < n =>
                    fields'[DispIncr][ConstrainedPoint(constraints[k])] =
                      PrescribedIncr(constraints[k], last'.t, last'.t + last'.dt)
               /\ \A k \in 1..(n - 1) : calls[k][1] = "timeStep" => intDt'[calls[k][2]] = last'.dt
          /\ last'.op = "step" =>
               /\ fields'[Residual] =
                    [p \in Points |-> WeightOfFirst(Integrators, Min(n - 1, Len(Integrators)))
                                        * (fields[DispT][p] - fields[DispTmdt][p])]
               /\ fields'[DispIncr] = fields[DispIncr]]_vars

\* a prestep raised in an integrator's needNewJacobian(), after the
\* constraints had written the increment field
C10_Witness ==
  /\ last.op = "prestep" /\ last.raised
  /\ last.failedAt > Len(constraints)
  /\ last.calls[last.failedAt][1] = "needNewJacobian"
  /\ fields[DispIncr][1] = PrescribedIncr("bc1", last.t, last.t + last.dt)

\* C11: the time step is not checked against a stable bound: after
\* initialize, a prestep, step or poststep raises only when a collaborator
\* call raises, whatever dt is (dt above the stable bound included); every
\* integrator whose timeStep returned holds exactly the caller's dt, the
\* Jacobian reform is set up for exactly the caller's dt, and the reformed
\* Jacobian is the one accumulated for the caller's dt.
StableDt == CHOOSE d \in DtVals : \A e \in DtVals : d <= e
C11_NoStableStepEnforcement ==
  [][(last'.op \in Phases /\ last.op # "none") =>
       /\ last'.raised => last'.failedAt > 0
       /\ last'.op = "prestep" =>
            /\ \A k \in DOMAIN last'.calls :
                 (last'.calls[k][1] = "timeStep" /\ k # last'.failedAt) =>
                   intDt'[last'.calls[k][2]] = last'.dt
            /\ last'.reforms > 0 => last'.settingsDt = last'.dt
            /\ (last'.reforms > 0 /\ ~last'.raised) =>
                 jacobian' = AccumulatedJacobian(last'.dt)]_vars

\* a poststep with a time step above the stable bound returned, after a
\* prestep with that time step had reformed the Jacobian and a step had run
C11_Witness ==
  /\ last.op = "poststep" /\ ~last.raised
  /\ last.dt > StableDt
  /\ \A i \in IntegratorIds : intDt[i] = last.dt
  /\ jacobian = AccumulatedJacobian(last.dt)
  /\ fields[DispT] \in Solutions

\* C12: whatever the order in which the integrators are registered, a
\* prestep that returns reforms the Jacobian exactly when some integrator
\* reported, the reformed Jacobian is the order-free sum of all integrators'
\* contributions for dt, and the residual a step that returns leaves is the
\* order-free sum of all integrators' contributions.
TotalWeight == IntWeight("m1") + IntWeight("m2") + IntWeight("s1")
C12_OrderIndependent ==
  [][/\ Returned("prestep") =>
          /\ last'.reforms = (IF last'.reported # {} THEN 1 ELSE 0)
          /\ jacobian' = (IF last'.reported # {}
                           THEN [p \in Points |-> TotalWeight * last'.dt]
                           ELSE jacobian)
     /\ Returned("step") =>
          fields'[Residual] =
            [p \in Points |-> TotalWeight * (fields[DispT][p] - fields[DispTmdt][p])]]_vars

\* with a submesh integrator registered first and the mesh integrators
\* swapped, a prestep in which only the first two asked reported has reformed
\* the Jacobian and a step has assembled a non-zero residual
C12_Witness ==
  /\ Integrators = <<"s1", "m2", "m1">>
  /\ last.op = "step" /\ ~last.raised
  /\ fields[Residual] # Zero
  /\ \E dt \in DtVals : jacobian = AccumulatedJacobian(dt)

\* C13: with relaxation times tauA and tauB (viscosity / shear modulus, the
\* shear modulus being vs * vs * density), the stable time step the data
\* object reports is 0.2 times the smaller of the two, and is not larger
\* than 0.2 times either of them.
RelaxationTime(l) ==
  Quot(maxwell.db[l].viscosity, maxwell.db[l].vs * maxwell.db[l].vs * maxwell.db[l].density)
Fifth(x) == Quot(2 * x, 10)
C13_StableTimeStep ==
  maxwell.pc = "done" =>
    LET tauA == RelaxationTime(1)
        tauB == RelaxationTime(2)
    IN /\ maxwell.properties[1].maxwellTime = tauA
       /\ maxwell.properties[2].maxwellTime = tauB
       /\ maxwell.dtStableImplicit = (IF tauA <= tauB THEN Fifth(tauA) ELSE Fifth(tauB))
       /\ maxwell.dtStableImplicit <= Fifth(tauA)
       /\ maxwell.dtStableImplicit <= Fifth(tauB)

\* the second material relaxes faster than the first: the reported step is
\* 0.2 times its relaxation time, below 0.2 times the first one's
C13_Witness ==
  /\ maxwell.pc = "done"
  /\ RelaxationTime(2) < RelaxationTime(1)
  /\ maxwell.dtStableImplicit = Fifth(RelaxationTime(2))
  /\ maxwell.dtStableImplicit < Fifth(RelaxationTime(1))

\* C14: at every evaluated location the six elastic constants are
\* C1111 = C2222 = lambda + 2*mu, C1122 = lambda, C1212 = 2*mu and
\* C1112 = C2212 = 0, and the 3x3 matrix assembled from them is symmetric;
\* mu is vs^2 * density, lambda is vp^2 * density - 2*mu, and lambda equals
\* mu whenever vp^2 = 3 * vs^2.
ShearModulus(l) == maxwell.properties[l].mu
LameLambda(l) == SurdValue(maxwell.properties[l].lambda)
VpSquared(l) ==
  SurdMul(Vp(maxwell.db[l].vs, maxwell.db[l].vpFactor),
          Vp(maxwell.db[l].vs, maxwell.db[l].vpFactor))
C14_ElasticConstants ==
  /\ maxwell.pc \in {"properties", "done"} =>
       \A l \in Locs :
         /\ ShearModulus(l) = maxwell.db[l].vs * maxwell.db[l].vs * maxwell.db[l].density
         /\ maxwell.properties[l].lambda =
              <<VpSquared(l)[1] * maxwell.db[l].density - 2 * ShearModulus(l),
                VpSquared(l)[2] * maxwell.db[l].density>>
         /\ VpSquared(l) = <<3 * maxwell.db[l].vs * maxwell.db[l].vs, 0>> =>
              maxwell.properties[l].lambda = <<ShearModulus(l), 0>>
  /\ maxwell.pc \in {"properties", "done"} =>
       \A l \in 1..maxwell.evaluated :
         LET c == maxwell.elasticConsts[l]
             e == ElasticMatrix(c)
         IN /\ c[1] = LameLambda(l) + 2 * ShearModulus(l)
            /\ c[4] = c[1]
            /\ c[2] = LameLambda(l)
            /\ c[6] = 2 * ShearModulus(l)
            /\ c[3] = 0 /\ c[5] = 0
            /\ \A i, j \in 1..tensorSize : e[i][j] = e[j][i]
            /\ e[1][1] = c[1] /\ e[2][2] = c[4] /\ e[3][3] = c[6]
            /\ e[1][2] = c[2] /\ e[1][3] = c[3] /\ e[2][3] = c[5]

\* both locations are evaluated: at the first vp^2 = 3 vs^2 and C1122 equals
\* mu, at the second vp = 2 vs and C1122 is 2 mu
C14_Witness ==
  /\ maxwell.pc = "done"
  /\ maxwell.db[1].vpFactor = Sqrt3
  /\ maxwell.elasticConsts[1][2] = ShearModulus(1)
  /\ maxwell.elasticConsts[1][1] = 3 * ShearModulus(1)
  /\ maxwell.db[2].vpFactor = Scalar(2)
  /\ maxwell.elasticConsts[2][2] = 2 * ShearModulus(2)

\* C15: at every evaluated location the stress is the elastic matrix times
\* (strain - initial strain) plus the initial stress, written out by
\* component from that location's own strain and properties; it stays so
\* when another location is evaluated, and a location not yet evaluated
\* still holds zeros.
ExpectedStress(l) ==
  LET mu == ShearModulus(l)
      lambda == LameLambda(l)
      e == maxwell.db[l].strain
      e0 == maxwell.db[l].initialStrain
      s0 == maxwell.db[l].initialStress
  IN <<(lambda + 2 * mu) * (e[1] - e0[1]) + lambda * (e[2] - e0[2]) + s0[1],
       lambda * (e[1] - e0[1]) + (lambda + 2 * mu) * (e[2] - e0[2]) + s0[2],
       2 * mu * (e[3] - e0[3]) + s0[3]>>
C15_StressPerPoint ==
  maxwell.pc \in {"properties", "done"} =>
    \A l \in Locs :
      maxwell.stress[l] = (IF l <= maxwell.evaluated THEN ExpectedStress(l)
                           ELSE Zeros(tensorSize))

\* two locations with different strain, initial strain and initial stress
\* are evaluated and hold different, non-zero stresses
C15_Witness ==
  /\ maxwell.pc = "done"
  /\ maxwell.db[1].strain # maxwell.db[2].strain
  /\ maxwell.db[1].initialStrain # Zeros(tensorSize)
  /\ maxwell.db[2].initialStress # Zeros(tensorSize)
  /\ maxwell.db[1].initialStrain # maxwell.db[2].initialStrain
  /\ maxwell.stress[1] # maxwell.stress[2]
  /\ maxwell.stress[1] = ExpectedStress(1)

\* C16: prestep changes neither disp(t) nor disp(t-dt) (nor the set of
\* fields); of prestep, step and poststep only poststep changes either of
\* them; so the residual a step assembles right after a prestep is made
\* from the two displacement generations as they were before the prestep.
Displacements == {DispT, DispTmdt}
C16_PrestepFrame ==
  [][/\ last'.op = "prestep" =>
          /\ DOMAIN fields' = DOMAIN fields
          /\ \A n \in DOMAIN fields \cap Displacements : fields'[n] = fields[n]
     /\ (/\ last'.op \in Phases
         /\ \E n \in DOMAIN fields \cap Displacements : fields'[n] # fields[n]) =>
          last'.op = "poststep"
     /\ (last.op = "prestep" /\ Returned("step")) =>
          fields'[Residual] =
            [p \in Points |->
               (IntWeight("m1") + IntWeight("m2") + IntWeight("s1"))
                 * (fields[DispT][p] - fields[DispTmdt][p])]]_vars

\* a prestep returned after reforming the Jacobian and writing the
\* prescribed increment, with two different displacement generations in place
C16_Witness ==
  /\ last.op = "prestep" /\ ~last.raised /\ last.reforms = 1
  /\ fields[DispT] # Zero
  /\ fields[DispTmdt] # Zero
  /\ fields[DispT] # fields[DispTmdt]
  /\ fields[DispIncr][1] = PrescribedIncr("bc1", last.t, last.t + last.dt)

\* C17: in a step every integrator's residual contribution is assembled
\* before the solver is called; the solver is called at most once, exactly
\* once when the step returns, as the last call; it is handed the increment
\* field, the Jacobian object that solver.initialize was given, and the
\* residual field, which then holds the sum of the contributions assembled
\* in this step from the current displacements.
C17_ResidualThenSolve ==
  last.op = "step" =>
    LET solves == Logged("solver.solve")
        assembled == Logged("integrateResidual")
    IN /\ Cardinality(solves) <= 1
       /\ \A k \in solves :
            /\ k = Len(last.calls)
            /\ \A j \in assembled : j < k
            /\ \A i \in IntegratorIds :
                 Cardinality({j \in assembled : last.calls[j][2] = i}) = 1
       /\ (solves # {}) <=> (last.solveArgs # <<>>)
       /\ last.solveArgs # <<>> =>
            /\ last.solveArgs = <<DispIncr, jacobianObj, Residual>>
            /\ jacobianObj # 0
            /\ jacobianObj = solver.jacobianObj
            /\ fields[Residual] =
                 [p \in Points |->
                    WeightOfFirst(Integrators, Len(Integrators))
                      * (fields[DispT][p] - fields[DispTmdt][p])]
       /\ ~last.raised => Cardinality(solves) = 1

\* a step returned: the solver ran once, after three residual contributions
\* made from two different displacement generations
C17_Witness ==
  /\ last.op = "step" /\ ~last.raised
  /\ Cardinality(Logged("integrateResidual")) = 3
  /\ last.solveArgs = <<DispIncr, 1, Residual>>
  /\ fields[Residual] # Zero
  /\ fields[DispIncr] \in Solutions

\* C18 as stated: at every evaluated location the updated state is the total
\* strain [e11, e22, e12] followed by the viscous strain
\* [e11 - m, e22 - m, -m, e12] with m = (e11 + e22)/3, and the three normal
\* viscous components sum to zero.
MeanStrain(l) == Quot(maxwell.db[l].strain[1] + maxwell.db[l].strain[2], 3)
StateLayout(l) ==
  LET e == maxwell.db[l].strain
      v == maxwell.stateVarsUpdated[l]
  IN /\ Len(v) = tensorSize + 4
     /\ v[1] = e[1] /\ v[2] = e[2] /\ v[3] = e[3]
     /\ v[4] = e[1] - MeanStrain(l)
     /\ v[5] = e[2] - MeanStrain(l)
     /\ v[6] = 0 - MeanStrain(l)
     /\ v[7] = e[3]
NormalViscousSum(l) ==
  maxwell.stateVarsUpdated[l][4] + maxwell.stateVarsUpdated[l][5]
    + maxwell.stateVarsUpdated[l][6]
RECURSIVE SumOfFirst(_, _)
SumOfFirst(incrs, n) == IF n = 0 THEN Zero ELSE Plus(SumOfFirst(incrs, n - 1), incrs[n])
C19_DisplacementIsSumOfIncrements ==
  (last.op # "none" /\ ~aborted) =>
    LET n == Len(committed)
    IN /\ n = nsteps
       /\ fields[DispT] = SumOfFirst(committed, n)
       /\ fields[DispTmdt] = (IF n = 0 THEN Zero ELSE SumOfFirst(committed, n - 1))
       /\ \A p \in Points :
            fields[DispT][p] - fields[DispTmdt][p] =
              (IF n = 0 THEN 0 ELSE committed[n][p])

\* two poststeps have returned; they committed two different increments,
\* the second one a solution of the solver
C19_Witness ==
  /\ last.op = "poststep" /\ ~last.raised
  /\ committed = <<Ones, Ramp>>
  /\ fields[DispTmdt] = Ones
  /\ fields[DispT] = Plus(Ones, Ramp)

\* C20: in a prestep every constraint's setFieldIncr comes before any
\* integrator's timeStep; the integrators get timeStep(dt) in registration
\* order, mesh then submesh, each at most once and right before its own
\* needNewJacobian(); a prestep that returns has given every constraint its
\* setFieldIncr for [t, t+dt] and every integrator its timeStep(dt) and its
\* query, also after an integrator reported; and the Jacobian is reformed
\* only after every integrator got timeStep(dt).
CallsTo(fn, obj) == {k \in Logged(fn) : last.calls[k][2] = obj}
C20_PrestepOrder ==
  last.op = "prestep" =>
    LET calls == last.calls
        nc == Len(constraints)
        ni == Len(Integrators)
    IN /\ \A j \in Logged("setFieldIncr"), k \in Logged("timeStep") : j < k
       /\ \A k \in 1..nc : k <= Len(calls) => calls[k] = <<"setFieldIncr", constraints[k]>>
       /\ \A k \in 1..ni :
            /\ nc + 2 * k - 1 <= Len(calls) =>
                 calls[nc + 2 * k - 1] = <<"timeStep", Integrators[k]>>
            /\ nc + 2 * k <= Len(calls) =>
                 calls[nc + 2 * k] = <<"needNewJacobian", Integrators[k]>>
       /\ \A i \in IntegratorIds :
            /\ Cardinality(CallsTo("timeStep", i)) <= 1
            /\ Cardinality(CallsTo("needNewJacobian", i)) <= 1
            /\ \A q \in CallsTo("needNewJacobian", i) :
                 \E k \in CallsTo("timeStep", i) : k < q
       /\ \A r \in Logged("integrateJacobian") :
            \A i \in IntegratorIds : \E k \in CallsTo("timeStep", i) : k < r
       /\ last.reforms > 0 =>
            /\ Len(calls) >= nc + 2 * ni
            /\ \A i \in IntegratorIds : intDt[i] = last.dt
       /\ ~last.raised =>
            /\ \A c \in ConstraintIds :
                 /\ Cardinality(CallsTo("setFieldIncr", c)) = 1
                 /\ fields[DispIncr][ConstrainedPoint(c)] =
                      PrescribedIncr(c, last.t, last.t + last.dt)
            /\ \A i \in IntegratorIds :
                 /\ Cardinality(CallsTo("timeStep", i)) = 1
                 /\ Cardinality(CallsTo("needNewJacobian", i)) = 1
                 /\ intDt[i] = last.dt

\* a prestep returned in which the first two integrators reported: the
\* third was still given its time step and asked, and then the Jacobian was
\* reformed
C20_Witness ==
  /\ last.op = "prestep" /\ ~last.raised
  /\ last.reported = {"m1", "m2"}
  /\ CallsTo("timeStep", "s1") # {}
  /\ CallsTo("needNewJacobian", "s1") # {}
  /\ Logged("integrateJacobian") # {}
  /\ last.dt = 2 /\ intDt["s1"] = 2

====
